---- MODULE Spec2Model ----
(***************************************************************************)
(* Model of src/image.py: the landmark enrichment pipeline (analyze_image) *)
(* and its helpers get_wikidata_info, extract_claim_value,                 *)
(* extract_entity_labels and get_location_details.                         *)
(*                                                                         *)
(* Encoding of Python values:                                              *)
(*   - a dict is a function from keys (strings) to values; a key whose     *)
(*     value is None is left out of the domain, so d.get(k) is None        *)
(*     exactly when k is not in DOMAIN d ({} is the empty function);       *)
(*   - an optional value returned by a function is None == <<>> or         *)
(*     Some(v) == <<v>>;                                                   *)
(*   - a JSON body is tagged with its type, so that a body that is not an  *)
(*     object can be told from one that is;                                *)
(*   - a time string is the sequence of its characters, every other string *)
(*     is atomic.                                                          *)
(***************************************************************************)
EXTENDS Integers, Sequences, FiniteSets, TLC

VARIABLES
    pc,               \* position of the handler / of the function under call
    hashOrder,        \* iteration order of a set of identifiers in this process
    landmark_name,    \* analyze_image: landmark.description
    locations,        \* analyze_image: locations
    wiki_data,        \* analyze_image: wiki_data
    wikidata_id,      \* analyze_image / get_wikidata_info: wikidata_id
    entity_data,      \* get_wikidata_info: entity_data (with its claims)
    info,             \* get_wikidata_info: the entries of info evaluated so far
    wikidata_info,    \* analyze_image: wikidata_info
    location_details, \* analyze_image: location_details
    response,         \* the HTTP response of analyze_image: status and body
    reqLog,           \* the outbound requests issued so far, with their outcome
    call,             \* extract_entity_labels called alone: arguments and results
    cv                \* extract_claim_value called alone: arguments and result

vars == <<pc, hashOrder, landmark_name, locations, wiki_data, wikidata_id,
          entity_data, info, wikidata_info, location_details, response,
          reqLog, call, cv>>

----------------------------------------------------------------------------
(* Bounds of the model *)

MaxClaims == 2
MaxTimeLen == 3
MaxLocs == 2

----------------------------------------------------------------------------
(* Python values *)

None == << >>
Some(v) == <<v>>

EmptyDict == << >>
Has(d, k) == k \in DOMAIN d
Get(d, k) == IF Has(d, k) THEN Some(d[k]) ELSE None
Entry(k, opt) == IF opt = None THEN EmptyDict ELSE (k :> opt[1])

SeqsUpTo(S, n) == UNION {[1..k -> S] : k \in 0..n}

RECURSIVE SeqFilter(_, _)
SeqFilter(s, keep) ==
    IF s = << >> THEN << >>
    ELSE (IF Head(s) \in keep THEN <<Head(s)>> ELSE << >>) \o SeqFilter(Tail(s), keep)

Range(s) == {s[i] : i \in DOMAIN s}

----------------------------------------------------------------------------
(* extract_claim_value *)

\* A claim of the entity: its mainsnak.datavalue.value is a dict with a "time"
\* (kind "time"), any other value (kind "value"), missing (kind "novalue"), or
\* the claim is not a dict at all (kind "bad": .get raises).
TimeChars == {"+", "-", "1", "T"}
TimeStrings == SeqsUpTo(TimeChars, MaxTimeLen)
EiffelTime == <<"+", "1", "8", "8", "9", "-", "0", "3", "-", "3", "1", "T",
                "0", "0", ":", "0", "0", ":", "0", "0", "Z">>
EiffelDate == <<"1", "8", "8", "9", "-", "0", "3", "-", "3", "1">>
Urls == {"https://www.toureiffel.paris", "https://example.org"}
TimeClaim(t) == [kind |-> "time", time |-> t]
ValueClaim(v) == [kind |-> "value", value |-> v]
NoValueClaim == [kind |-> "novalue"]
BadClaim == [kind |-> "bad"]

\* str.lstrip("+"): drops every leading "+"
RECURSIVE Lstrip(_, _)
Lstrip(s, ch) ==
    IF s # << >> /\ Head(s) = ch THEN Lstrip(Tail(s), ch) ELSE s

\* str.split("T")[0]: what precedes the first "T", the whole string without one
RECURSIVE SplitFirst(_, _)
SplitFirst(s, ch) ==
    IF s = << >> \/ Head(s) = ch THEN << >>
    ELSE <<Head(s)>> \o SplitFirst(Tail(s), ch)

\* a projection that forgets to drop the time of day
ProjectTimeKeepT(t) == Lstrip(t, "+")
\* value["time"].lstrip("+").split("T")[0]
ProjectTime(t) == SplitFirst(Lstrip(t, "+"), "T")

ExtractClaimValue(claims, is_url) ==
    IF claims = << >> THEN None
    ELSE LET c == claims[1] IN
         CASE c.kind = "bad" -> None
           [] c.kind = "novalue" -> None
           [] c.kind = "value" -> Some(c.value)
           [] c.kind = "time" ->
                IF is_url THEN Some([time |-> c.time])
                ELSE Some(ProjectTime(c.time))

----------------------------------------------------------------------------
(* extract_entity_labels *)

Ids == {"Q1", "Q2"}
Label(q) == IF q = "Q1" THEN "L1" ELSE "L2"
Perms(S) == {p \in [1..Cardinality(S) -> S] : Range(p) = S}

\* A claim whose value refers to another entity (kind "ref"), has no datavalue
\* (kind "novalue": the chain of .get yields None) or is not a dict (kind "bad").
RefClaim(q) == [kind |-> "ref", id |-> q]
RefClaims == {RefClaim(q) : q \in Ids} \cup {NoValueClaim, BadClaim}
RefClaimLists == SeqsUpTo(RefClaims, MaxClaims)

\* The response to a wbgetentities request for labels.
LabelEntries == {[kind |-> "label"], [kind |-> "nolabel"], [kind |-> "bad"]}
FailedResponses ==
    {[kind |-> "error"], [kind |-> "status"], [kind |-> "invalid"], [kind |-> "notdict"]}
LabelResponses ==
    FailedResponses \cup
    {[kind |-> "ok", entities |-> e] : e \in UNION {[S -> LabelEntries] : S \in SUBSET Ids}}

IsMalformed(claims) == \E i \in DOMAIN claims : claims[i].kind = "bad"
ReferencedIds(claims) == {claims[i].id : i \in {j \in DOMAIN claims : claims[j].kind = "ref"}}

\* the identifiers in the order of their first appearance in the claim
RECURSIVE FirstAppearance(_, _)
FirstAppearance(claims, seen) ==
    IF claims = << >> THEN << >>
    ELSE LET c == Head(claims) IN
         IF c.kind = "ref" /\ c.id \notin seen
         THEN <<c.id>> \o FirstAppearance(Tail(claims), seen \cup {c.id})
         ELSE FirstAppearance(Tail(claims), seen)

\* list(filter(None, set(entity_ids))): the set is iterated in this process's order
EntityIds(claims) == SeqFilter(hashOrder, ReferencedIds(claims))

\* a request per identifier instead of one for all of them
LabelRequestsEach(entity_ids, outcome) ==
    [i \in DOMAIN entity_ids |->
        [api |-> "wikidata", ids |-> <<entity_ids[i]>>, props |-> "labels", outcome |-> outcome]]
\* requests.get(..., params={"ids": "|".join(entity_ids), "props": "labels"})
LabelRequests(entity_ids, outcome) ==
    << [api |-> "wikidata", ids |-> entity_ids, props |-> "labels", outcome |-> outcome] >>

\* labels.get(eid, eid), labels[qid] being the English label or qid itself
LabelOf(entities, eid) ==
    IF eid \in DOMAIN entities /\ entities[eid].kind = "label" THEN Label(eid) ELSE eid

\* a resolution that leaves out the identifiers without a label
ResolveLabelsDropping(entity_ids, resp) ==
    IF resp.kind # "ok" THEN << >>
    ELSE IF \E q \in DOMAIN resp.entities : resp.entities[q].kind = "bad" THEN << >>
    ELSE LET found == {q \in DOMAIN resp.entities : resp.entities[q].kind = "label"}
         IN  [i \in DOMAIN SeqFilter(entity_ids, found) |-> Label(SeqFilter(entity_ids, found)[i])]
\* lines 89-99: [] unless the response is a 200 whose body parses
ResolveLabels(entity_ids, resp) ==
    IF resp.kind # "ok" THEN << >>
    ELSE IF \E q \in DOMAIN resp.entities : resp.entities[q].kind = "bad" THEN << >>
    ELSE [i \in DOMAIN entity_ids |-> LabelOf(resp.entities, entity_ids[i])]

\* how the follow-up ended: "ok" when a 200 response parsed, else the failure
Outcome(resp) ==
    IF resp.kind = "ok" /\ \E q \in DOMAIN resp.entities : resp.entities[q].kind = "bad"
    THEN "malformed" ELSE resp.kind

Returned(v, reqs) == [raised |-> FALSE, value |-> v, requests |-> reqs]
Raised(reqs) == [raised |-> TRUE, value |-> << >>, requests |-> reqs]

\* a failed follow-up that raises instead of returning []
LabelsOutcomeRaising(entity_ids, resp) ==
    IF resp.kind # "ok" \/ \E q \in DOMAIN resp.entities : resp.entities[q].kind = "bad"
    THEN Raised(LabelRequests(entity_ids, Outcome(resp)))
    ELSE Returned(ResolveLabels(entity_ids, resp), LabelRequests(entity_ids, Outcome(resp)))
\* the try block of extract_entity_labels: every exception is caught
LabelsOutcome(entity_ids, resp) ==
    Returned(ResolveLabels(entity_ids, resp), LabelRequests(entity_ids, Outcome(resp)))

\* extract_entity_labels(claims), resp being the response to the request it
\* makes, if it makes one: what it returns or that it raises, and its requests
ExtractEntityLabels(claims, resp) ==
    IF claims = << >> THEN Returned(<< >>, << >>)
    ELSE IF IsMalformed(claims) THEN Raised(<< >>)
    ELSE IF EntityIds(claims) = << >> THEN Returned(<< >>, << >>)
    ELSE LabelsOutcome(EntityIds(claims), resp)

\* whether extract_entity_labels(claims) makes a request
NeedsRequest(claims) ==
    claims # << >> /\ ~IsMalformed(claims) /\ ReferencedIds(claims) # {}

----------------------------------------------------------------------------
(* get_location_details *)

Truthy(opt) == opt # None /\ opt[1] # ""
\* a or b or c over optional strings
Or3(a, b, c) == IF Truthy(a) THEN a ELSE IF Truthy(b) THEN b ELSE c

OptOf(S) == {None} \cup {Some(x) : x \in S}
Addresses == [country : OptOf({"France"}), city : OptOf({"Paris"}),
              town : OptOf({"Versailles"}), village : OptOf({"Giverny"})]
GeoResponses ==
    FailedResponses \cup {[kind |-> "noaddress"], [kind |-> "badaddress"]} \cup
    {[kind |-> "ok", address |-> a] : a \in Addresses}

\* lines 103-115: country and city of a 200 response, {} on any failure
GetLocationDetails(resp) ==
    CASE resp.kind = "ok" ->
            Entry("country", resp.address.country)
            @@ Entry("city", Or3(resp.address.city, resp.address.town, resp.address.village))
      [] resp.kind = "noaddress" -> EmptyDict
      [] OTHER -> EmptyDict

----------------------------------------------------------------------------
(* get_wikidata_info *)

EntityId == "Q243"
TimeClaimLists == {<< >>, <<TimeClaim(EiffelTime)>>}
UrlClaimLists == {<< >>, <<ValueClaim("https://www.toureiffel.paris")>>}
Descriptions == {"tower in Paris"}
NoEntity == [description |-> None, P571 |-> << >>, P149 |-> << >>, P17 |-> << >>,
             P856 |-> << >>]
EntitiesOver(refLists) ==
    [description : OptOf(Descriptions), P571 : TimeClaimLists, P149 : refLists,
     P17 : refLists, P856 : UrlClaimLists]
AllEntities == EntitiesOver(RefClaimLists)
PipelineEntities == EntitiesOver({<< >>, <<RefClaim("Q1")>>})
EntityResponses(entities) ==
    FailedResponses \cup {[kind |-> "ok", entity |-> NoEntity]} \cup
    {[kind |-> "ok", entity |-> e] : e \in entities}

EntityRequest(id, outcome) ==
    [api |-> "wikidata", ids |-> <<id>>, props |-> "claims|descriptions|labels",
     outcome |-> outcome]

\* entity_data.get("descriptions", {}).get("en", {}).get("value", "")
DescriptionOf(entity) == IF entity.description = None THEN "" ELSE entity.description[1]

\* lines 21-45: the request for the entity, and the first two entries of info
FetchEntity(entities) ==
    /\ pc = "kg_entity"
    /\ IF wikidata_id = None
       THEN /\ wikidata_info' = EmptyDict
            /\ pc' = "kg_return"
            /\ UNCHANGED <<entity_data, info, reqLog>>
       ELSE \E resp \in EntityResponses(entities) :
            /\ reqLog' = Append(reqLog, EntityRequest(wikidata_id[1], resp.kind))
            /\ IF resp.kind # "ok"
               THEN /\ wikidata_info' = EmptyDict
                    /\ pc' = "kg_return"
                    /\ UNCHANGED <<entity_data, info>>
               ELSE /\ entity_data' = Some(resp.entity)
                    /\ info' = ("description" :> DescriptionOf(resp.entity))
                               @@ Entry("inception_date",
                                        ExtractClaimValue(resp.entity.P571, FALSE))
                    /\ pc' = "kg_styles"
                    /\ UNCHANGED wikidata_info
    /\ UNCHANGED <<hashOrder, landmark_name, locations, wiki_data, wikidata_id,
                   location_details, response, call, cv>>

ResponsesFor(claims) ==
    IF NeedsRequest(claims) THEN LabelResponses ELSE {[kind |-> "none"]}

\* line 46: "architectural_styles": extract_entity_labels(claims.get("P149", []))
ExtractStyles ==
    /\ pc = "kg_styles"
    /\ \E resp \in ResponsesFor(entity_data[1].P149) :
        LET out == ExtractEntityLabels(entity_data[1].P149, resp) IN
        /\ reqLog' = reqLog \o out.requests
        /\ IF out.raised
           THEN /\ wikidata_info' = EmptyDict
                /\ pc' = "kg_return"
                /\ UNCHANGED info
           ELSE /\ info' = info @@ ("architectural_styles" :> out.value)
                /\ pc' = "kg_country"
                /\ UNCHANGED wikidata_info
    /\ UNCHANGED <<hashOrder, landmark_name, locations, wiki_data, wikidata_id,
                   entity_data, location_details, response, call, cv>>

\* lines 47-51: "country", "official_website", return info
ExtractCountry ==
    /\ pc = "kg_country"
    /\ \E resp \in ResponsesFor(entity_data[1].P17) :
        LET out == ExtractEntityLabels(entity_data[1].P17, resp) IN
        /\ reqLog' = reqLog \o out.requests
        /\ IF out.raised
           THEN /\ wikidata_info' = EmptyDict
                /\ UNCHANGED info
           ELSE /\ info' = info @@ ("country" :> out.value)
                             @@ Entry("official_website",
                                      ExtractClaimValue(entity_data[1].P856, TRUE))
                /\ wikidata_info' = info'
    /\ pc' = "kg_return"
    /\ UNCHANGED <<hashOrder, landmark_name, locations, wiki_data, wikidata_id,
                   entity_data, location_details, response, call, cv>>

----------------------------------------------------------------------------
(* analyze_image *)

Sentinel == "No description available"
Names == {"Eiffel Tower"}
Coords == {[latitude |-> 48, longitude |-> 2], [latitude |-> 40, longitude |-> -74]}
\* landmark.locations: each with a lat_lng or without one
LocationEntries == OptOf(Coords)
Landmarks == [description : Names, locations : SeqsUpTo(LocationEntries, MaxLocs)]
OtherLandmark == [description |-> "Champ de Mars", locations |-> << >>]
Detections ==
    {<< >>} \cup {<<l>> : l \in Landmarks} \cup {<<l, OtherLandmark>> : l \in Landmarks}

\* [... for loc in landmark.locations if loc.lat_lng]
RECURSIVE WithLatLng(_)
WithLatLng(locs) ==
    IF locs = << >> THEN << >>
    ELSE (IF Head(locs) = None THEN << >> ELSE <<Head(locs)[1]>>) \o WithLatLng(Tail(locs))

Extracts == {"", "The Eiffel Tower is a wrought-iron lattice tower."}
PageUrl == "https://en.wikipedia.org/wiki/Eiffel_Tower"
ContentUrls == {[type |-> "dict", page |-> Some(PageUrl)], [type |-> "other"]}
Summaries ==
    [extract : OptOf(Extracts), wikibase_item : OptOf({EntityId}),
     content_urls : OptOf(ContentUrls)]
WikiResponses ==
    FailedResponses \cup {[kind |-> "ok", summary |-> w] : w \in Summaries}

Dict(d) == [type |-> "dict", v |-> d]
NotDict == [type |-> "other"]
IsDict(j) == j.type = "dict"

\* lines 138-147: wiki_data after the request
WikiData(resp) ==
    CASE resp.kind = "ok" ->
            Dict(Entry("extract", resp.summary.extract)
                 @@ Entry("wikibase_item", resp.summary.wikibase_item)
                 @@ Entry("content_urls", resp.summary.content_urls)
                 @@ ("description" :> "tower"))
      [] resp.kind = "notdict" -> NotDict
      [] OTHER -> Dict(EmptyDict)

Success(body) == [status |-> 200, body |-> body]
Failure(status, message) == [status |-> status, body |-> [error |-> message]]

\* lines 119-135: the upload, the detector, the first landmark
ReceiveRequest ==
    /\ pc = "start"
    /\ \/ /\ response' = Some(Failure(400, "No image file provided"))
          /\ pc' = "done"
          /\ UNCHANGED <<landmark_name, locations>>
       \/ /\ response' = Some(Failure(500, "detector"))
          /\ pc' = "done"
          /\ UNCHANGED <<landmark_name, locations>>
       \/ \E landmarks \in Detections :
            IF landmarks = << >>
            THEN /\ response' = Some(Failure(404, "No landmarks detected"))
                 /\ pc' = "done"
                 /\ UNCHANGED <<landmark_name, locations>>
            ELSE /\ landmark_name' = landmarks[1].description
                 /\ locations' = WithLatLng(landmarks[1].locations)
                 /\ pc' = "wiki"
                 /\ UNCHANGED response
    /\ UNCHANGED <<hashOrder, wiki_data, wikidata_id, entity_data, info, wikidata_info,
                   location_details, reqLog, call, cv>>

\* a gate that takes the identifier whatever the summary holds
WikidataIdAlways(w) == Some(EntityId)
\* line 150: wiki_data.get("wikibase_item"), tested for truth on line 151
WikidataId(w) == Get(w, "wikibase_item")

\* lines 137-151: the summary request, and whether the knowledge graph is asked
FetchWikipedia ==
    /\ pc = "wiki"
    /\ \E resp \in WikiResponses :
        /\ reqLog' = Append(reqLog, [api |-> "wikipedia", title |-> landmark_name,
                                     outcome |-> resp.kind])
        /\ wiki_data' = WikiData(resp)
        /\ IF ~IsDict(wiki_data')
           THEN /\ response' = Some(Failure(500, "AttributeError"))
                /\ pc' = "done"
                /\ UNCHANGED <<wikidata_id, wikidata_info>>
           ELSE /\ wikidata_id' = WikidataId(wiki_data'.v)
                /\ IF Truthy(wikidata_id')
                   THEN pc' = "kg_entity" /\ UNCHANGED wikidata_info
                   ELSE pc' = "kg_return" /\ wikidata_info' = EmptyDict
                /\ UNCHANGED response
    /\ UNCHANGED <<hashOrder, landmark_name, locations, entity_data, info,
                   location_details, call, cv>>

\* f"https://maps.google.com/?q={loc['latitude']},{loc['longitude']}"
MapsLink(loc) == <<"https://maps.google.com/?q=", loc.latitude, ",", loc.longitude>>

\* location details whose link is added only with a geocoder result
LocationDetailsLinkIfGeocoded(loc, geo) ==
    IF geo = EmptyDict THEN ("coordinates" :> loc)
    ELSE ("maps_link" :> MapsLink(loc)) @@ geo @@ ("coordinates" :> loc)
\* lines 157-162: {"coordinates": loc, **geo}, then ["maps_link"]
LocationDetails(loc, geo) ==
    ("maps_link" :> MapsLink(loc)) @@ geo @@ ("coordinates" :> loc)

\* lines 153-162: the reverse-geocoding request for the first candidate
PrepareLocation ==
    /\ pc = "kg_return"
    /\ IF locations # << >>
       THEN \E resp \in GeoResponses :
            /\ reqLog' = Append(reqLog, [api |-> "nominatim", lat |-> locations[1].latitude,
                                         lon |-> locations[1].longitude,
                                         outcome |-> resp.kind])
            /\ location_details' = LocationDetails(locations[1], GetLocationDetails(resp))
       ELSE /\ location_details' = EmptyDict
            /\ UNCHANGED reqLog
    /\ pc' = "build"
    /\ UNCHANGED <<hashOrder, landmark_name, locations, wiki_data, wikidata_id,
                   entity_data, info, wikidata_info, response, call, cv>>

\* a description that prefers the encyclopedia extract
DescriptionExtractFirst(kg, w) ==
    Or3(Get(w, "extract"), Get(kg, "description"), Some(Sentinel))[1]
\* line 167: wikidata_info.get("description") or wiki_data.get("extract") or "No ..."
Description(kg, w) ==
    Or3(Get(kg, "description"), Get(w, "extract"), Some(Sentinel))[1]

\* line 177: f"https://www.wikidata.org/wiki/{wikidata_id}" if wikidata_id else None
WikidataRef(id) ==
    IF Truthy(id) THEN Some(<<"https://www.wikidata.org/wiki/", id[1]>>) ELSE None

\* a maps reference that stands in for a missing link
GoogleMapsRefDefault(loc) ==
    IF Has(loc, "maps_link") THEN Some(loc["maps_link"])
    ELSE Some(<<"https://maps.google.com/?q=", 0, ",", 0>>)
\* line 178: location_details.get("maps_link")
GoogleMapsRef(loc) == Get(loc, "maps_link")

\* lines 165-180: result
Result(name, kg, w, id, loc) ==
    [name |-> name,
     description |-> Description(kg, w),
     historical_context |->
        Entry("inception_date", Get(kg, "inception_date"))
        @@ Entry("architectural_styles", Get(kg, "architectural_styles"))
        @@ Entry("significance", Get(w, "description")),
     location |-> loc,
     references |->
        Entry("wikipedia", IF Has(w, "content_urls") THEN w["content_urls"].page ELSE None)
        @@ Entry("wikidata", WikidataRef(id))
        @@ Entry("google_maps", GoogleMapsRef(loc))]
    @@ Entry("official_website", Get(kg, "official_website"))

\* lines 164-186: the record, or the fault its assembly raises
BuildResponse ==
    /\ pc = "build"
    /\ response' =
        IF Has(wiki_data.v, "content_urls") /\ ~IsDict(wiki_data.v["content_urls"])
        THEN Some(Failure(500, "AttributeError"))
        ELSE Some(Success(Result(landmark_name, wikidata_info, wiki_data.v, wikidata_id,
                                 location_details)))
    /\ pc' = "done"
    /\ UNCHANGED <<hashOrder, landmark_name, locations, wiki_data, wikidata_id,
                   entity_data, info, wikidata_info, location_details, reqLog, call, cv>>

----------------------------------------------------------------------------
(* The specification of a request to /analyze *)

Init ==
    /\ pc = "start"
    /\ hashOrder \in Perms(Ids)
    /\ landmark_name = ""
    /\ locations = << >>
    /\ wiki_data = Dict(EmptyDict)
    /\ wikidata_id = None
    /\ entity_data = None
    /\ info = EmptyDict
    /\ wikidata_info = EmptyDict
    /\ location_details = EmptyDict
    /\ response = None
    /\ reqLog = << >>
    /\ call = << >>
    /\ cv = << >>

Next ==
    \/ ReceiveRequest
    \/ FetchWikipedia
    \/ FetchEntity(PipelineEntities)
    \/ ExtractStyles
    \/ ExtractCountry
    \/ PrepareLocation
    \/ BuildResponse

Spec == Init /\ [][Next]_vars

----------------------------------------------------------------------------
(* get_wikidata_info called alone, over every entity of the bounds *)

InitKG ==
    /\ pc = "kg_entity"
    /\ hashOrder \in Perms(Ids)
    /\ wikidata_id \in OptOf({EntityId})
    /\ landmark_name = ""
    /\ locations = << >>
    /\ wiki_data = Dict(EmptyDict)
    /\ entity_data = None
    /\ info = EmptyDict
    /\ wikidata_info = EmptyDict
    /\ location_details = EmptyDict
    /\ response = None
    /\ reqLog = << >>
    /\ call = << >>
    /\ cv = << >>

NextKG ==
    \/ FetchEntity(AllEntities)
    \/ ExtractStyles
    \/ ExtractCountry

SpecKG == InitKG /\ [][NextKG]_vars

----------------------------------------------------------------------------
(* extract_entity_labels called alone, twice with the same response *)

InitLabels ==
    /\ pc = "labels_call"
    /\ hashOrder \in Perms(Ids)
    /\ call \in [claims : RefClaimLists, resp : {None}, runs : {<< >>}]
    /\ landmark_name = ""
    /\ locations = << >>
    /\ wiki_data = Dict(EmptyDict)
    /\ wikidata_id = None
    /\ entity_data = None
    /\ info = EmptyDict
    /\ wikidata_info = EmptyDict
    /\ location_details = EmptyDict
    /\ response = None
    /\ reqLog = << >>
    /\ cv = << >>

CallExtractEntityLabels ==
    /\ pc = "labels_call"
    /\ \E resp \in ResponsesFor(call.claims) :
        LET out == ExtractEntityLabels(call.claims, resp) IN
        /\ call' = [call EXCEPT !.resp = Some(resp), !.runs = Append(@, out)]
        /\ reqLog' = reqLog \o out.requests
    /\ pc' = "labels_again"
    /\ UNCHANGED <<hashOrder, landmark_name, locations, wiki_data, wikidata_id,
                   entity_data, info, wikidata_info, location_details, response, cv>>

CallExtractEntityLabelsAgain ==
    /\ pc = "labels_again"
    /\ LET out == ExtractEntityLabels(call.claims, call.resp[1]) IN
        /\ call' = [call EXCEPT !.runs = Append(@, out)]
        /\ reqLog' = reqLog \o out.requests
    /\ pc' = "labels_done"
    /\ UNCHANGED <<hashOrder, landmark_name, locations, wiki_data, wikidata_id,
                   entity_data, info, wikidata_info, location_details, response, cv>>

NextLabels == CallExtractEntityLabels \/ CallExtractEntityLabelsAgain

SpecLabels == InitLabels /\ [][NextLabels]_vars

----------------------------------------------------------------------------
(* extract_claim_value called alone *)

ClaimValues ==
    {TimeClaim(t) : t \in TimeStrings \cup {EiffelTime}}
    \cup {ValueClaim(u) : u \in Urls} \cup {NoValueClaim, BadClaim}
ClaimValueLists ==
    {<< >>} \cup {<<c>> : c \in ClaimValues}
    \cup {<<c, ValueClaim("https://example.org")>> : c \in ClaimValues}

InitClaimValue ==
    /\ pc = "cv_call"
    /\ cv \in [claims : ClaimValueLists, is_url : BOOLEAN, result : {None}]
    /\ hashOrder \in Perms(Ids)
    /\ call = << >>
    /\ landmark_name = ""
    /\ locations = << >>
    /\ wiki_data = Dict(EmptyDict)
    /\ wikidata_id = None
    /\ entity_data = None
    /\ info = EmptyDict
    /\ wikidata_info = EmptyDict
    /\ location_details = EmptyDict
    /\ response = None
    /\ reqLog = << >>

CallExtractClaimValue ==
    /\ pc = "cv_call"
    /\ cv' = [cv EXCEPT !.result = ExtractClaimValue(cv.claims, cv.is_url)]
    /\ pc' = "cv_done"
    /\ UNCHANGED <<hashOrder, landmark_name, locations, wiki_data, wikidata_id,
                   entity_data, info, wikidata_info, location_details, response,
                   reqLog, call>>

NextClaimValue == CallExtractClaimValue

SpecClaimValue == InitClaimValue /\ [][NextClaimValue]_vars

----------------------------------------------------------------------------
(* Properties *)

Answered == pc = "done" /\ response # None
Status == response[1].status
Body == response[1].body
Detected == landmark_name # ""
RequestsTo(api) == SelectSeq(reqLog, LAMBDA r : r.api = api)
NoItem == IsDict(wiki_data) /\ ~Has(wiki_data.v, "wikibase_item")

\* C1: once a landmark is detected, whatever the three sources answer, the
\* request ends as a success and never as the server error.
C1_NeverServerError ==
    (Answered /\ Detected) => Status = 200

\* C2: the description is the knowledge-graph description when there is one,
\* else the encyclopedia extract when there is one, else the sentinel; it is
\* never empty, and it is the sentinel when the encyclopedia call failed.
C2_DescriptionPrecedence ==
    (Answered /\ Status = 200) =>
        LET kg == Get(wikidata_info, "description")
            ex == Get(wiki_data.v, "extract")
            d == Body.description
        IN  /\ Truthy(kg) => d = kg[1]
            /\ (~Truthy(kg) /\ Truthy(ex)) => d = ex[1]
            /\ (~Truthy(kg) /\ ~Truthy(ex)) => d = Sentinel
            /\ d # ""
            /\ RequestsTo("wikipedia")[1].outcome # "ok" => d = Sentinel

C2_Witness ==
    /\ Answered /\ Status = 200
    /\ Truthy(Get(wikidata_info, "description"))
    /\ Truthy(Get(wiki_data.v, "extract"))
    /\ Body.description = wikidata_info["description"]
    /\ Body.description # wiki_data.v["extract"]

KGReturned == pc = "kg_return" /\ entity_data # None
P149 == entity_data[1].P149
P17 == entity_data[1].P17
\* the position in reqLog of the follow-up of each property, 0 without one
StylesRequest == IF NeedsRequest(P149) THEN 2 ELSE 0
CountryRequest ==
    IF ~IsMalformed(P149) /\ NeedsRequest(P17)
    THEN (IF NeedsRequest(P149) THEN 3 ELSE 2) ELSE 0
FollowUpCarries(i, claims) ==
    /\ i \in DOMAIN reqLog
    /\ reqLog[i].props = "labels"
    /\ Range(reqLog[i].ids) = ReferencedIds(claims)
    /\ Len(reqLog[i].ids) = Cardinality(ReferencedIds(claims))

\* C3 as stated: an entity with at least one entity-reference claim costs
\* exactly 2 requests, the second carrying the identifiers of both properties.
C3_ExactlyTwoRequests ==
    (KGReturned /\ ~IsMalformed(P149) /\ ~IsMalformed(P17)
        /\ ReferencedIds(P149) \cup ReferencedIds(P17) # {}) =>
        /\ Len(reqLog) = 2
        /\ Range(reqLog[2].ids) = ReferencedIds(P149) \cup ReferencedIds(P17)

\* C3 amended: one request for the entity, then one follow-up per
\* entity-reference property that refers to at least one identifier, each
\* carrying the distinct identifiers of that property and nothing else.
C3_OneFollowUpPerProperty ==
    KGReturned =>
        /\ reqLog[1].ids = <<wikidata_id[1]>>
        /\ reqLog[1].props = "claims|descriptions|labels"
        /\ Len(reqLog) = 1 + (IF StylesRequest # 0 THEN 1 ELSE 0)
                           + (IF CountryRequest # 0 THEN 1 ELSE 0)
        /\ StylesRequest # 0 => FollowUpCarries(StylesRequest, P149)
        /\ CountryRequest # 0 => FollowUpCarries(CountryRequest, P17)

C3_Witness ==
    /\ KGReturned
    /\ Len(reqLog) = 3
    /\ Len(reqLog[2].ids) = 2
    /\ Len(reqLog[3].ids) = 1

\* C4 as stated: a failure of any request of get_wikidata_info leaves the
\* entity fully unknown.
C4_AnyFailureFullyUnknown ==
    (pc = "kg_return" /\ \E i \in DOMAIN reqLog : reqLog[i].outcome # "ok") =>
        wikidata_info = EmptyDict

\* C4 amended: a failure of the entity request leaves the entity fully
\* unknown; a failure of a follow-up empties the property it resolves and
\* nothing else: the description, the inception date and the website keep
\* what the entity request gave, and the other property keeps its labels.
C4_FailureIsolation ==
    /\ (pc = "kg_return" /\ reqLog # << >> /\ reqLog[1].outcome # "ok") =>
            wikidata_info = EmptyDict
    /\ (KGReturned /\ ~IsMalformed(P149) /\ ~IsMalformed(P17)) =>
        /\ {"description", "architectural_styles", "country"} \subseteq DOMAIN wikidata_info
        /\ wikidata_info["description"] = DescriptionOf(entity_data[1])
        /\ Has(wikidata_info, "inception_date") <=> entity_data[1].P571 # << >>
        /\ Has(wikidata_info, "official_website") <=> entity_data[1].P856 # << >>
        /\ Len(wikidata_info["architectural_styles"]) =
                IF StylesRequest # 0 /\ reqLog[StylesRequest].outcome = "ok"
                THEN Cardinality(ReferencedIds(P149)) ELSE 0
        /\ Len(wikidata_info["country"]) =
                IF CountryRequest # 0 /\ reqLog[CountryRequest].outcome = "ok"
                THEN Cardinality(ReferencedIds(P17)) ELSE 0

C4_Witness ==
    /\ KGReturned
    /\ StylesRequest # 0 /\ reqLog[StylesRequest].outcome = "status"
    /\ CountryRequest # 0 /\ reqLog[CountryRequest].outcome = "ok"
    /\ wikidata_info # EmptyDict
    /\ wikidata_info["architectural_styles"] = << >>
    /\ Len(wikidata_info["country"]) = 2
    /\ wikidata_info["description"] # ""
    /\ Has(wikidata_info, "inception_date")
    /\ Has(wikidata_info, "official_website")

LabelsReturned ==
    /\ pc \in {"labels_again", "labels_done"}
    /\ ~call.runs[1].raised
FollowUpParsed == call.resp[1].kind = "ok" /\ Outcome(call.resp[1]) = "ok"

\* C5: the output holds one label per distinct identifier, in the order in
\* which the identifiers first appear in the claim, and a second resolution
\* against the same response yields the same sequence.
C5_FirstAppearanceOrder ==
    (pc = "labels_done" /\ ~call.runs[1].raised /\ FollowUpParsed) =>
        LET ids == FirstAppearance(call.claims, {}) IN
        /\ call.runs[1].value =
                [i \in DOMAIN ids |-> LabelOf(call.resp[1].entities, ids[i])]
        /\ call.runs[2].value = call.runs[1].value

\* C6 as stated: every distinct identifier of the claim is in the output, as
\* its label or as itself, so the output is as long as they are many.
C6_NothingDropped ==
    LabelsReturned =>
        LET out == call.runs[1].value IN
        /\ Len(out) = Cardinality(ReferencedIds(call.claims))
        /\ \A q \in ReferencedIds(call.claims) : Label(q) \in Range(out) \/ q \in Range(out)

\* C6 amended: when the follow-up request returns a 200 response that
\* parses, every distinct identifier of the claim is in the output, as its
\* label when the response has one and as the raw identifier otherwise.
C6_NothingDroppedOnResponse ==
    (LabelsReturned /\ (ReferencedIds(call.claims) # {} => FollowUpParsed)) =>
        LET out == call.runs[1].value
            e == call.resp[1].entities
        IN  /\ Len(out) = Cardinality(ReferencedIds(call.claims))
            /\ \A q \in ReferencedIds(call.claims) :
                    IF q \in DOMAIN e /\ e[q].kind = "label"
                    THEN Label(q) \in Range(out) /\ q \notin Range(out)
                    ELSE q \in Range(out) /\ Label(q) \notin Range(out)

C6_Witness ==
    /\ LabelsReturned /\ FollowUpParsed
    /\ ReferencedIds(call.claims) = Ids
    /\ "Q1" \notin DOMAIN call.resp[1].entities
    /\ "Q2" \in DOMAIN call.resp[1].entities /\ call.resp[1].entities["Q2"].kind = "nolabel"
    /\ Range(call.runs[1].value) = {"Q1", "Q2"}

\* C7 as stated: without a candidate location the record has no location
\* field, no maps reference, and the geocoder is not called.
C7_LocationAbsent ==
    (Answered /\ Status = 200 /\ locations = << >>) =>
        /\ ~Has(Body, "location")
        /\ ~Has(Body.references, "google_maps")
        /\ RequestsTo("nominatim") = << >>

\* C7 amended: without a candidate location the record's location field is
\* an empty object, holding no coordinates and no link, the maps reference is
\* absent, and the geocoder is not called.
C7_LocationEmptyObject ==
    (Answered /\ Status = 200 /\ locations = << >>) =>
        /\ Has(Body, "location") /\ DOMAIN Body.location = {}
        /\ ~Has(Body.references, "google_maps")
        /\ RequestsTo("nominatim") = << >>

C7_Witness ==
    /\ Answered /\ Status = 200 /\ locations = << >>
    /\ Len(reqLog) = 4

GeocodingFailed == RequestsTo("nominatim")[1].outcome # "ok"

\* C8: with a candidate location the record carries the first candidate's
\* coordinates and the link made of them, the maps reference is that link,
\* a failed geocoding leaves country and city out, and the geocoder adds
\* nothing but country and city.
C8_CoordinatesAndLink ==
    (Answered /\ Status = 200 /\ locations # << >>) =>
        LET loc == Body.location IN
        /\ Has(loc, "coordinates") /\ loc["coordinates"] = locations[1]
        /\ Has(loc, "maps_link")
        /\ loc["maps_link"] = <<"https://maps.google.com/?q=", locations[1].latitude, ",",
                                locations[1].longitude>>
        /\ Get(Body.references, "google_maps") = Some(loc["maps_link"])
        /\ GeocodingFailed => (~Has(loc, "country") /\ ~Has(loc, "city"))
        /\ DOMAIN loc \subseteq {"coordinates", "maps_link", "country", "city"}
        /\ Len(RequestsTo("nominatim")) = 1

C8_Witness ==
    /\ Answered /\ Status = 200
    /\ Len(locations) = 2 /\ locations[1] # locations[2]
    /\ RequestsTo("nominatim")[1].outcome = "status"
    /\ Body.location["coordinates"] = locations[1]

\* C9: without a knowledge-graph reference in the encyclopedia result the
\* knowledge graph is never called, its fields and its reference are absent
\* from the record, the description is the extract when there is one; and no
\* knowledge-graph request comes before the encyclopedia request.
C9_GatedByEncyclopedia ==
    /\ NoItem => RequestsTo("wikidata") = << >>
    /\ \A i \in DOMAIN reqLog :
            reqLog[i].api = "wikidata" => \E j \in 1..(i - 1) : reqLog[j].api = "wikipedia"
    /\ (Answered /\ Status = 200 /\ NoItem) =>
        /\ ~Has(Body.historical_context, "inception_date")
        /\ ~Has(Body.historical_context, "architectural_styles")
        /\ ~Has(Body, "official_website")
        /\ ~Has(Body.references, "wikidata")
        /\ Truthy(Get(wiki_data.v, "extract")) => Body.description = wiki_data.v["extract"]

C9_Witness ==
    /\ Answered /\ Status = 200 /\ NoItem
    /\ RequestsTo("wikipedia")[1].outcome = "ok"
    /\ Truthy(Get(wiki_data.v, "extract"))
    /\ Body.description = wiki_data.v["extract"]

ProjectedTime ==
    /\ pc = "cv_done"
    /\ ~cv.is_url
    /\ cv.claims # << >>
    /\ cv.claims[1].kind = "time"
ClaimValueRest ==
    /\ (pc = "cv_done" /\ cv.claims = << >>) => cv.result = None
    /\ (pc = "cv_done" /\ cv.is_url /\ cv.claims # << >> /\ cv.claims[1].kind = "value") =>
            cv.result = Some(cv.claims[1].value)
    /\ (ProjectedTime /\ cv.claims[1].time = EiffelTime) => cv.result = Some(EiffelDate)

\* C10 as stated: the projected date has neither a leading sign, "+" or "-",
\* nor a time of day; a URL passes unchanged and an empty list yields None.
C10_StripsAnySign ==
    /\ ClaimValueRest
    /\ ProjectedTime =>
        /\ cv.result # None
        /\ cv.result[1] # << >> => Head(cv.result[1]) \notin {"+", "-"}
        /\ "T" \notin Range(cv.result[1])

\* C10 amended: the projected date is the raw value without its leading "+"
\* characters and without what follows the first "T", that "T" included; a
\* leading "-" is kept; a URL passes unchanged and an empty list yields None.
C10_StripsPlusOnly ==
    /\ ClaimValueRest
    /\ ProjectedTime =>
        /\ cv.result # None
        /\ LET t == cv.claims[1].time
               r == cv.result[1]
           IN  /\ r # << >> => Head(r) # "+"
               /\ "T" \notin Range(r)
               /\ \E k \in 0..Len(t) :
                    /\ \A i \in 1..k : t[i] = "+"
                    /\ k + Len(r) <= Len(t)
                    /\ \A i \in 1..Len(r) : r[i] = t[k + i]
                    /\ k + Len(r) = Len(t) \/ t[k + Len(r) + 1] = "T"
                    /\ (r = << >> /\ k < Len(t)) => t[k + 1] = "T"
               /\ (t # << >> /\ Head(t) = "-") => (r # << >> /\ Head(r) = "-")

C10_Witness ==
    /\ ProjectedTime
    /\ cv.claims[1].time = <<"-", "1", "T">>
    /\ cv.result = Some(<<"-", "1">>)

====
